---- MODULE Spec2Model ----
(***************************************************************************)
(* Model of the accuracy-validation core of the manufacturing part         *)
(* analyzer (validate_accuracy.py): identifier normalisation, coercion of  *)
(* ground-truth cells, record matching, per-field comparison and the       *)
(* accumulation of {correct, total} per parameter, followed by the         *)
(* reporting steps of main (create_visualization, print_summary_table).    *)
(*                                                                         *)
(* Python strings are sequences of one-character strings, so that          *)
(* str.replace, str.strip, str.lower and the `in` substring test are       *)
(* computed character by character.                                        *)
(***************************************************************************)
EXTENDS Integers, Sequences, FiniteSets, TLC

VARIABLES
    raw_id,            \* normalize harness: the identifier passed in
    norm_once,         \* normalize_part_id(raw_id)
    norm_twice,        \* normalize_part_id(normalize_part_id(raw_id))
    norm_pc,           \* "start" | "once" | "twice"
    cell,              \* coercion harness: the Excel value passed in
    coerced,           \* convert_excel_value(cell), or -1 before the call
    ground_truth,      \* ground_truth_df: [columns, rows]
    predictions,       \* the predictions iterated so far (last one = pred)
    parameter_stats,   \* parameter -> [correct, total]
    pc,                \* "loop" | "returned" | "raised" (calculate_accuracy),
                       \* then "visualized" | "main_raised" | "done" (main)
    loop_part_id,      \* local part_id of the loop body (line 142)
    report,            \* what create_visualization gave back to main
    summary,           \* what print_summary_table printed
    pdf_files,         \* analyze_batch: the PDFs the glob found, in its order
    results,           \* analyze_batch: the records appended so far
    batch_pc,          \* analyze_batch: "loop" | "returned" | "raised"
    output_file,       \* the list json.dump wrote to the results file
    output_writes      \* how many times the results file was written

vars == <<raw_id, norm_once, norm_twice, norm_pc, cell, coerced,
          ground_truth, predictions, parameter_stats, pc,
          loop_part_id, report, summary,
          pdf_files, results, batch_pc, output_file, output_writes>>

normVars == <<raw_id, norm_once, norm_twice, norm_pc>>
coerceVars == <<cell, coerced>>
accVars == <<ground_truth, predictions, parameter_stats, pc,
             loop_part_id, report, summary>>
batchVars == <<pdf_files, results, batch_pc, output_file, output_writes>>

-----------------------------------------------------------------------------
(* Bounds *)

\* identifiers of the normalize harness are concatenations of up to MaxTokens tokens
MaxTokens == 3
\* numeric Excel cells of the coercion harness range over -MaxNum..MaxNum
MaxNum == 8
\* predictions per run
MaxPreds == 2
\* rows of the ground-truth table
MaxRows == 2
\* PDF files in the directory given to analyze_batch
MaxPdfs == 3

-----------------------------------------------------------------------------
(* Python string primitives *)

\* s.startswith(pat)
StartsWith(s, pat) ==
    /\ Len(pat) <= Len(s)
    /\ SubSeq(s, 1, Len(pat)) = pat

\* s.replace(pat, ''): left-to-right, non-overlapping, a single pass
RECURSIVE Remove(_, _)
Remove(s, pat) ==
    IF Len(s) = 0 \/ Len(pat) = 0 THEN s
    ELSE IF StartsWith(s, pat)
         THEN Remove(SubSeq(s, Len(pat) + 1, Len(s)), pat)
         ELSE <<Head(s)>> \o Remove(Tail(s), pat)

Whitespace == {" ", "\t"}

RECURSIVE LStrip(_)
LStrip(s) ==
    IF Len(s) > 0 /\ Head(s) \in Whitespace THEN LStrip(Tail(s)) ELSE s

RECURSIVE RStrip(_)
RStrip(s) ==
    IF Len(s) > 0 /\ s[Len(s)] \in Whitespace
    THEN RStrip(SubSeq(s, 1, Len(s) - 1))
    ELSE s

\* s.strip()
Strip(s) == RStrip(LStrip(s))

\* a in b, for strings
IsSubstring(a, b) ==
    \E i \in 1..(Len(b) + 1) :
        /\ i + Len(a) - 1 <= Len(b)
        /\ SubSeq(b, i, i + Len(a) - 1) = a

UpperToLower ==
    [c \in {"A","B","C","D","E","F","G","H","I","J","K","L","M",
            "N","O","P","Q","R","S","T","U","V","W","X","Y","Z"} |->
        CASE c = "A" -> "a" [] c = "B" -> "b" [] c = "C" -> "c" [] c = "D" -> "d"
          [] c = "E" -> "e" [] c = "F" -> "f" [] c = "G" -> "g" [] c = "H" -> "h"
          [] c = "I" -> "i" [] c = "J" -> "j" [] c = "K" -> "k" [] c = "L" -> "l"
          [] c = "M" -> "m" [] c = "N" -> "n" [] c = "O" -> "o" [] c = "P" -> "p"
          [] c = "Q" -> "q" [] c = "R" -> "r" [] c = "S" -> "s" [] c = "T" -> "t"
          [] c = "U" -> "u" [] c = "V" -> "v" [] c = "W" -> "w" [] c = "X" -> "x"
          [] c = "Y" -> "y" [] c = "Z" -> "z"]

\* s.lower()
Lower(s) ==
    [i \in 1..Len(s) |->
        IF s[i] \in DOMAIN UpperToLower THEN UpperToLower[s[i]] ELSE s[i]]

-----------------------------------------------------------------------------
(* normalize_part_id *)

\* the variants, in the order of the for loop
Suffixes ==
    << <<"_","d","r","w">>, <<".","p","d","f">>, <<" ","(","1",")">>,
       <<" ","(","2",")">>, <<".","P","D","F">>, <<".","D","R","W">> >>

RECURSIVE RemoveAll(_, _)
RemoveAll(s, k) ==
    IF k > Len(Suffixes) THEN s
    ELSE RemoveAll(Remove(s, Suffixes[k]), k + 1)

\* mutant: the loop misses the first variant of the list
normalize_part_id_SkipFirst(part_id) == Strip(RemoveAll(part_id, 2))

normalize_part_id(part_id) == Strip(RemoveAll(part_id, 1))

-----------------------------------------------------------------------------
(* Values.  A JSON value of a prediction or a cell of the DataFrame is a    *)
(* record [kind, n, s]: n carries a number, s the characters of a string.   *)
(*   prediction side: "absent" (key not in the dict), "none" (null),        *)
(*                    "int", "text"                                         *)
(*   Excel side:      "nan" (empty cell), "bool" (n = 0/1), "int",          *)
(*                    "float" (n counts halves: n = 3 is 1.5), "text"       *)

Absent == [kind |-> "absent", n |-> 0, s |-> <<>>]
NoneV == [kind |-> "none", n |-> 0, s |-> <<>>]
NaN == [kind |-> "nan", n |-> 0, s |-> <<>>]
IntV(i) == [kind |-> "int", n |-> i, s |-> <<>>]
BoolV(b) == [kind |-> "bool", n |-> IF b THEN 1 ELSE 0, s |-> <<>>]
FloatV(halves) == [kind |-> "float", n |-> halves, s |-> <<>>]
TextV(str) == [kind |-> "text", n |-> 0, s |-> str]

\* pd.isna(value)
IsNa(value) == value.kind \in {"nan", "none"}

\* mutant: zero counts as positive
convert_excel_value_Geq(value) ==
    IF IsNa(value) THEN 0
    ELSE IF value.kind = "bool" THEN (IF value.n = 1 THEN 1 ELSE 0)
    ELSE IF value.kind \in {"int", "float"} THEN (IF value.n >= 0 THEN 1 ELSE 0)
    ELSE 0

convert_excel_value(value) ==
    IF IsNa(value) THEN 0
    ELSE IF value.kind = "bool" THEN (IF value.n = 1 THEN 1 ELSE 0)
    ELSE IF value.kind \in {"int", "float"} THEN (IF value.n > 0 THEN 1 ELSE 0)
    ELSE 0

DigitChars == <<"0","1","2","3","4","5","6","7","8","9">>

RECURSIVE Digits(_)
Digits(i) ==
    IF i < 10 THEN <<DigitChars[i + 1]>>
    ELSE Digits(i \div 10) \o <<DigitChars[(i % 10) + 1]>>

Abs(i) == IF i < 0 THEN -i ELSE i

\* str(value)
PyStr(value) ==
    CASE value.kind = "text" -> value.s
      [] value.kind = "none" -> <<"N","o","n","e">>
      [] value.kind = "nan" -> <<"n","a","n">>
      [] value.kind = "bool" ->
            IF value.n = 1 THEN <<"T","r","u","e">> ELSE <<"F","a","l","s","e">>
      [] value.kind = "int" ->
            (IF value.n < 0 THEN <<"-">> ELSE <<>>) \o Digits(Abs(value.n))
      [] value.kind = "float" ->
            (IF value.n < 0 THEN <<"-">> ELSE <<>>)
                \o Digits(Abs(value.n) \div 2)
                \o (IF Abs(value.n) % 2 = 0 THEN <<".","0">> ELSE <<".","5">>)

-----------------------------------------------------------------------------
(* Configuration: create_process_map and initialize_parameters *)

\* the (prediction key, Excel column) items in dict order
process_map ==
    << <<"laser_cut", "Laser Cut">>,
       <<"saw_shear", "Saw/Shear">>,
       <<"break_press", "Break Press">>,
       <<"fab", "Fab Weld">>,
       <<"weld", "Fab Weld">>,
       <<"painting", "Painting">>,
       <<"heat_treat", "Heat Treat">>,
       <<"plating", "Plating">>,
       <<"cnc_machining_turning", "CNC Machining /Turning">>,
       <<"metal_rolling", "Metal Rolling">>,
       <<"casting_forging", "Casting / Forging">>,
       <<"tube_bending", "Tube Bending">>,
       <<"metal_spinning", "Metal Spinning">>,
       <<"turret_punch_stamping", "Turret Punch /Metal Stamping">>,
       <<"press", "Press Inserts">>,
       <<"inserts", "Press Inserts">> >>

\* mutant: the list of parameters misses the last column of the mapping
all_params_Short ==
    {"Complexity Level", "Type", "Material", "Laser Cut", "Saw/Shear",
     "Break Press", "Fab Weld", "Painting", "Heat Treat", "Plating",
     "CNC Machining /Turning", "Metal Rolling", "Casting / Forging",
     "Tube Bending", "Metal Spinning", "Turret Punch /Metal Stamping"}

all_params ==
    {"Complexity Level", "Type", "Material", "Laser Cut", "Saw/Shear",
     "Break Press", "Fab Weld", "Painting", "Heat Treat", "Plating",
     "CNC Machining /Turning", "Metal Rolling", "Casting / Forging",
     "Tube Bending", "Metal Spinning", "Turret Punch /Metal Stamping",
     "Press Inserts"}

ProcessKeys == {process_map[k][1] : k \in 1..Len(process_map)}
ProcessColumns == {process_map[k][2] : k \in 1..Len(process_map)}

\* every key a prediction dict of the model may carry
PredKeys ==
    {"part_identifier", "part_name", "source_file", "error",
     "complexity_level", "type", "material"} \cup ProcessKeys

\* every column a ground-truth table of the model may have
AllColumns == {"Part ID"} \cup all_params \cup ProcessColumns

\* {param: {'correct': 0, 'total': 0} for param in all_params}
ZeroStats == [p \in all_params |-> [correct |-> 0, total |-> 0]]

\* key in pred
Has(pred, key) == pred[key].kind # "absent"

\* pred.get(key): None when the key is missing
Get(pred, key) == IF Has(pred, key) THEN pred[key] ELSE NoneV

\* pred.get(key, default)
GetOr(pred, key, default) == IF Has(pred, key) THEN pred[key] ELSE default

\* bool(value) as the `or` chain sees it
Truthy(value) ==
    CASE value.kind \in {"absent", "none", "nan"} -> FALSE
      [] value.kind = "text" -> Len(value.s) > 0
      [] OTHER -> value.n # 0

\* mutant: a key is chosen because it is there, whatever its value
SourceIdentifier_IfPresent(pred) ==
    IF Has(pred, "part_identifier") THEN Get(pred, "part_identifier")
    ELSE IF Has(pred, "part_name") THEN Get(pred, "part_name")
    ELSE GetOr(pred, "source_file", TextV(<<>>))

\* pred.get('part_identifier') or pred.get('part_name') or pred.get('source_file', '')
SourceIdentifier(pred) ==
    IF Truthy(Get(pred, "part_identifier")) THEN Get(pred, "part_identifier")
    ELSE IF Truthy(Get(pred, "part_name")) THEN Get(pred, "part_name")
    ELSE GetOr(pred, "source_file", TextV(<<>>))

\* normalize_part_id(...) of the prediction: str() first
PredPartId(pred) == normalize_part_id(PyStr(SourceIdentifier(pred)))

\* ground_truth_df['Part ID'].astype(str).apply(normalize_part_id)
RowPartId(row) == normalize_part_id(PyStr(row["Part ID"]))

\* indices of the rows of ground_truth_df[... == part_id]
Matches(gt, part_id) ==
    {r \in 1..Len(gt.rows) : RowPartId(gt.rows[r]) = part_id}

Min(S) == CHOOSE x \in S : \A y \in S : x <= y

\* mutant: the last of the matching rows, matches.iloc[-1]
FirstMatch_Last(gt, part_id) ==
    gt.rows[CHOOSE r \in Matches(gt, part_id) :
                \A q \in Matches(gt, part_id) : q <= r]

\* matches.iloc[0]
FirstMatch(gt, part_id) == gt.rows[Min(Matches(gt, part_id))]

-----------------------------------------------------------------------------
(* Field comparison: the body of the for loop of calculate_accuracy *)

\* mutant: the counter is set to 1 instead of incremented
IncTotal_Assign(stats, param) == [stats EXCEPT ![param].total = 1]

\* parameter_stats[param]['total'] += 1
IncTotal(stats, param) == [stats EXCEPT ![param].total = @ + 1]

\* mutant: the counter is assigned from total instead of incremented
IncCorrect_FromTotal(stats, param) == [stats EXCEPT ![param].correct = stats[param].total]

\* parameter_stats[param]['correct'] += 1
IncCorrect(stats, param) == [stats EXCEPT ![param].correct = @ + 1]

\* the characters of the model in code-point order, for str < str
CodePoints ==
    <<"\t", " ", "(", ")", "-", ".", "/",
      "0","1","2","3","4","5","6","7","8","9",
      "A","B","C","D","E","F","G","H","I","J","K","L","M",
      "N","O","P","Q","R","S","T","U","V","W","X","Y","Z", "_",
      "a","b","c","d","e","f","g","h","i","j","k","l","m",
      "n","o","p","q","r","s","t","u","v","w","x","y","z">>

Ord(c) == CHOOSE i \in 1..Len(CodePoints) : CodePoints[i] = c

\* a < b on strings
RECURSIVE StrLess(_, _)
StrLess(a, b) ==
    IF Len(b) = 0 THEN FALSE
    ELSE IF Len(a) = 0 THEN TRUE
    ELSE IF Head(a) = Head(b) THEN StrLess(Tail(a), Tail(b))
    ELSE Ord(Head(a)) < Ord(Head(b))

\* max(a, b) raises TypeError: '>' is not supported between the two types
MaxRaises(a, b) ==
    ~ \/ a.kind = "int" /\ b.kind = "int"
      \/ a.kind = "text" /\ b.kind = "text"

\* max(a, b) when it does not raise: b if b > a else a
PyMax(a, b) ==
    IF a.kind = "int"
    THEN (IF b.n > a.n THEN b ELSE a)
    ELSE (IF StrLess(a.s, b.s) THEN b ELSE a)

\* value == i, for a prediction value and the int returned by convert_excel_value
EqInt(value, i) == value.kind = "int" /\ value.n = i

Ok(stats) == [stats |-> stats, raised |-> FALSE]
Raise(stats) == [stats |-> stats, raised |-> TRUE]

\* lines 159-175: Complexity Level and Type
CheckExact(stats, pred, actual, columns, key, col) ==
    IF Has(pred, key) /\ col \in columns
    THEN LET counted == IncTotal(stats, col)
             predicted == Lower(PyStr(GetOr(pred, key, TextV(<<>>))))
             actual_str == Lower(PyStr(actual[col]))
         IN  IF predicted = actual_str THEN IncCorrect(counted, col) ELSE counted
    ELSE stats

\* mutant: only the predicted material is looked for in the other
CheckMaterial_OneWay(stats, pred, actual, columns) ==
    IF Has(pred, "material") /\ "Material" \in columns
    THEN LET counted == IncTotal(stats, "Material")
             pred_material == Lower(PyStr(GetOr(pred, "material", TextV(<<>>))))
             actual_material == Lower(PyStr(actual["Material"]))
         IN  IF IsSubstring(pred_material, actual_material)
             THEN IncCorrect(counted, "Material")
             ELSE counted
    ELSE stats

\* lines 177-184: Material
CheckMaterial(stats, pred, actual, columns) ==
    IF Has(pred, "material") /\ "Material" \in columns
    THEN LET counted == IncTotal(stats, "Material")
             pred_material == Lower(PyStr(GetOr(pred, "material", TextV(<<>>))))
             actual_material == Lower(PyStr(actual["Material"]))
         IN  IF \/ IsSubstring(pred_material, actual_material)
                \/ IsSubstring(actual_material, pred_material)
             THEN IncCorrect(counted, "Material")
             ELSE counted
    ELSE stats

\* lines 192-212: a combined column, entered under its first key only
CheckCombined(stats, pred, actual, col, first, second) ==
    LET counted == IncTotal(stats, col)
        first_pred == GetOr(pred, first, IntV(0))
        second_pred == GetOr(pred, second, IntV(0))
        actual_val == convert_excel_value(actual[col])
    IN  IF MaxRaises(first_pred, second_pred) THEN Raise(counted)
        ELSE IF EqInt(PyMax(first_pred, second_pred), actual_val)
             THEN Ok(IncCorrect(counted, col))
             ELSE Ok(counted)

\* value == cell, for a prediction value and a raw Excel cell
EqCell(value, c) ==
    /\ value.kind = "int"
    /\ \/ c.kind \in {"int", "bool"} /\ c.n = value.n
       \/ c.kind = "float" /\ c.n = 2 * value.n

\* mutant: the prediction is compared with the raw cell, not the coerced one
CheckSingle_RawCell(stats, pred, actual, key, col) ==
    LET counted == IncTotal(stats, col)
        predicted == pred[key]
    IN  IF EqCell(predicted, actual[col])
        THEN Ok(IncCorrect(counted, col))
        ELSE Ok(counted)

\* mutant: correct is counted without total
CheckSingle_NoTotal(stats, pred, actual, key, col) ==
    LET predicted == pred[key]
        actual_val == convert_excel_value(actual[col])
    IN  IF EqInt(predicted, actual_val)
        THEN Ok(IncCorrect(stats, col))
        ELSE Ok(stats)

\* lines 214-221: single process comparison
CheckSingle(stats, pred, actual, key, col) ==
    LET counted == IncTotal(stats, col)
        predicted == pred[key]
        actual_val == convert_excel_value(actual[col])
    IN  IF EqInt(predicted, actual_val)
        THEN Ok(IncCorrect(counted, col))
        ELSE Ok(counted)

\* lines 188-221: one item of process_map
CheckProcess(stats, pred, actual, columns, key, col) ==
    IF ~Has(pred, key) \/ col \notin columns THEN Ok(stats)
    ELSE IF col = "Fab Weld"
         THEN (IF key = "fab"
               THEN CheckCombined(stats, pred, actual, col, "fab", "weld")
               ELSE Ok(stats))
    ELSE IF col = "Press Inserts"
         THEN (IF key = "press"
               THEN CheckCombined(stats, pred, actual, col, "press", "inserts")
               ELSE Ok(stats))
    ELSE IF key \notin {"weld", "inserts"}
         THEN CheckSingle(stats, pred, actual, key, col)
         ELSE Ok(stats)

\* lines 187-221: for pred_key, excel_col in process_map.items(), from item k on;
\* an exception leaves the loop with the counters as they are at that point
RECURSIVE CheckProcesses(_, _, _, _, _)
CheckProcesses(stats, pred, actual, columns, k) ==
    IF k > Len(process_map) THEN Ok(stats)
    ELSE LET step == CheckProcess(stats, pred, actual, columns,
                                  process_map[k][1], process_map[k][2])
         IN  IF step.raised THEN step
             ELSE CheckProcesses(step.stats, pred, actual, columns, k + 1)

\* mutant: no `continue` on an empty match, matches.iloc[0] raises IndexError
EvaluatePrediction_NoSkip(stats, pred, gt) ==
    LET part_id == PredPartId(pred)
    IN  IF Matches(gt, part_id) = {} THEN Raise(stats)
        ELSE LET actual == FirstMatch(gt, part_id)
                 s1 == CheckExact(stats, pred, actual, gt.columns,
                                  "complexity_level", "Complexity Level")
                 s2 == CheckExact(s1, pred, actual, gt.columns, "type", "Type")
                 s3 == CheckMaterial(s2, pred, actual, gt.columns)
             IN  CheckProcesses(s3, pred, actual, gt.columns, 1)

\* lines 140-221: one iteration of `for pred in predictions`
EvaluatePrediction(stats, pred, gt) ==
    LET part_id == PredPartId(pred)
    IN  IF Matches(gt, part_id) = {} THEN Ok(stats)
        ELSE LET actual == FirstMatch(gt, part_id)
                 s1 == CheckExact(stats, pred, actual, gt.columns,
                                  "complexity_level", "Complexity Level")
                 s2 == CheckExact(s1, pred, actual, gt.columns, "type", "Type")
                 s3 == CheckMaterial(s2, pred, actual, gt.columns)
             IN  CheckProcesses(s3, pred, actual, gt.columns, 1)

\* lines 136-223: the whole run over a list of predictions
RECURSIVE RunFrom(_, _, _, _)
RunFrom(stats, preds, gt, i) ==
    IF i > Len(preds) THEN Ok(stats)
    ELSE LET result == EvaluatePrediction(stats, preds[i], gt)
         IN  IF result.raised THEN result
             ELSE RunFrom(result.stats, preds, gt, i + 1)

calculate_accuracy(preds, gt) == RunFrom(ZeroStats, preds, gt, 1)

-----------------------------------------------------------------------------
(* Inputs of calculate_accuracy *)

\* a prediction dict: the keys of f carry f's values, every other key is missing
Pred(f) == [k \in PredKeys |-> IF k \in DOMAIN f THEN f[k] ELSE Absent]

\* a ground-truth row: the columns of f carry f's cells, every other cell is empty
Row(f) == [c \in AllColumns |-> IF c \in DOMAIN f THEN f[c] ELSE NaN]

\* what analyze_part returns for a drawing: every key of the response format
AnalyzerRecord(complexity, type, material, ones) ==
    ("complexity_level" :> TextV(complexity)) @@ ("type" :> TextV(type))
    @@ ("material" :> TextV(material))
    @@ [k \in ProcessKeys |-> IF k \in ones THEN IntV(1) ELSE IntV(0)]

FromA == ("source_file" :> TextV(<<"a",".","p","d","f">>))
\* an empty part_identifier, then part_name 'b'
FromB ==
    ("part_identifier" :> TextV(<<>>)) @@ ("part_name" :> TextV(<<"b">>))
        @@ ("source_file" :> TextV(<<"u","n","k","n","o","w","n",".","p","d","f">>))
\* part_identifier 'unknown.pdf' ahead of a part_name and a source_file
FromUnknown ==
    ("part_identifier" :> TextV(<<"u","n","k","n","o","w","n",".","p","d","f">>))
        @@ ("part_name" :> TextV(<<"a">>))
        @@ ("source_file" :> TextV(<<"a",".","p","d","f">>))

PredBodies ==
    { AnalyzerRecord(<<"l","o","w">>, <<"p","l","a","t","e">>, <<"s","t","e","e","l">>, {"laser_cut", "saw_shear", "fab"}),
      AnalyzerRecord(<<"H","I","G","H">>, <<"s","h","a","f","t">>,
                     <<"B","r","a","s","s"," ","A","l","l","o","y">>, {"press", "inserts", "painting"}),
      ("laser_cut" :> IntV(0)) @@ ("saw_shear" :> IntV(1)),
      ("weld" :> IntV(1)),
      ("fab" :> IntV(0)) @@ ("press" :> IntV(1)) @@ ("complexity_level" :> TextV(<<"n","a","n">>))
          @@ ("material" :> TextV(<<>>)),
      ("fab" :> NoneV) @@ ("weld" :> IntV(0)) @@ ("press" :> IntV(1))
          @@ ("inserts" :> IntV(1)),
      ("fab" :> TextV(<<"y","e","s">>)) @@ ("weld" :> TextV(<<"n","o">>)) @@ ("press" :> TextV(<<"y","e","s">>))
          @@ ("painting" :> NoneV),
      ("error" :> TextV(<<"b","o","o","m">>)) }

\* the prediction records a run draws from
PredDomain ==
    {Pred(FromA @@ b) : b \in PredBodies}
    \cup {Pred(FromB @@ AnalyzerRecord(<<"l","o","w">>, <<"p","l","a","t","e">>, <<"s","t","e","e","l">>, {"weld", "inserts"})),
          Pred(FromUnknown @@ AnalyzerRecord(<<"l","o","w">>, <<"p","l","a","t","e">>, <<"s","t","e","e","l">>, {"fab"}))}

ZerosFor(cols) == [c \in cols |-> IntV(0)]

\* the rows a ground-truth table draws from; the first two normalise to the same id
RowDomain ==
    { Row(("Part ID" :> TextV(<<"a",".","p","d","f">>)) @@ ("Complexity Level" :> TextV(<<"L","o","w">>))
          @@ ("Type" :> TextV(<<"p","l","a","t","e">>)) @@ ("Material" :> TextV(<<"M","i","l","d"," ","S","t","e","e","l">>))
          @@ ("Laser Cut" :> IntV(1)) @@ ("Saw/Shear" :> BoolV(TRUE))
          @@ ("Fab Weld" :> IntV(1)) @@ ("Press Inserts" :> FloatV(2))
          @@ ZerosFor(ProcessColumns)),
      Row(("Part ID" :> TextV(<<"a">>)) @@ ("Material" :> TextV(<<"B","r","a","s","s">>))
          @@ ("Laser Cut" :> TextV(<<"y","e","s">>)) @@ ("Saw/Shear" :> IntV(0 - 1))
          @@ ("Fab Weld" :> IntV(0)) @@ ("Painting" :> BoolV(TRUE))),
      Row(("Part ID" :> TextV(<<"b","_","d","r","w">>)) @@ ("Complexity Level" :> TextV(<<"l","o","w">>))
          @@ ("Type" :> TextV(<<"s","h","a","f","t">>)) @@ ("Material" :> TextV(<<"s","t","e","e","l">>))
          @@ ("Fab Weld" :> BoolV(TRUE)) @@ ("Press Inserts" :> IntV(1))
          @@ ZerosFor(ProcessColumns)) }

\* the column sets a ground-truth table draws from: the full template, and a
\* sheet whose author dropped some columns
ColumnSets ==
    { AllColumns,
      AllColumns \ {"Complexity Level", "Laser Cut", "Press Inserts"} }

RECURSIVE SeqsUpTo(_, _)
\* the sequences over S of length at most n
SeqsUpTo(S, n) ==
    IF n = 0 THEN {<<>>}
    ELSE LET shorter == SeqsUpTo(S, n - 1)
         IN  shorter \cup {Append(q, x) : q \in shorter, x \in S}

\* no row twice: a verbatim copy of a row is never the first match
Distinct(q) == \A i, j \in 1..Len(q) : q[i] = q[j] => i = j

TableDomain ==
    {[columns |-> cs, rows |-> rs] :
        cs \in ColumnSets,
        rs \in {q \in SeqsUpTo(RowDomain, MaxRows) : Distinct(q)}}

-----------------------------------------------------------------------------
(* Reporting: create_visualization and print_summary_table *)

\* a percentage is kept exact, as a reduced fraction num/den
RECURSIVE GCD(_, _)
GCD(a, b) == IF b = 0 THEN a ELSE GCD(b, a % b)

Frac(num, den) == [num |-> num \div GCD(num, den), den |-> den \div GCD(num, den)]

\* the literal 0 of the conditional expressions at lines 304, 337 and 343
Zero == [num |-> 0, den |-> 1]

\* (correct / total) * 100; the guard total > 0 is the caller's
Percent(correct, total) == Frac(100 * correct, total)

RECURSIVE SumOver(_, _, _)
SumOver(stats, field, params) ==
    IF params = {} THEN 0
    ELSE LET p == CHOOSE q \in params : TRUE
         IN  stats[p][field] + SumOver(stats, field, params \ {p})

\* lines 240-251 and 333-335: the parameters that are not skipped
Reported(stats) == {p \in DOMAIN stats : stats[p].total # 0}

\* the value of a call that has not happened
NotCalled ==
    [kind |-> "pending", params |-> {}, accuracy |-> <<>>,
     overall_accuracy |-> Zero, overall_correct |-> 0, overall_total |-> 0]

\* lines 253-255: the bare return
NoneResult ==
    [kind |-> "none", params |-> {}, accuracy |-> <<>>,
     overall_accuracy |-> Zero, overall_correct |-> 0, overall_total |-> 0]

\* lines 234-318
create_visualization(stats) ==
    LET params == Reported(stats)
        overall_correct == SumOver(stats, "correct", DOMAIN stats)
        overall_total == SumOver(stats, "total", DOMAIN stats)
    IN  IF params = {} THEN NoneResult
        ELSE [kind |-> "tuple",
              params |-> params,
              accuracy |-> [p \in params |-> Percent(stats[p].correct, stats[p].total)],
              overall_accuracy |-> IF overall_total > 0
                                   THEN Percent(overall_correct, overall_total)
                                   ELSE Zero,
              overall_correct |-> overall_correct,
              overall_total |-> overall_total]

\* lines 323-347
print_summary_table(stats) ==
    LET params == Reported(stats)
        overall_correct == SumOver(stats, "correct", params)
        overall_total == SumOver(stats, "total", params)
    IN  [kind |-> "printed",
         params |-> params,
         accuracy |-> [p \in params |-> IF stats[p].total > 0
                                        THEN Percent(stats[p].correct, stats[p].total)
                                        ELSE Zero],
         overall_accuracy |-> IF overall_total > 0
                              THEN Percent(overall_correct, overall_total)
                              ELSE Zero,
         overall_correct |-> overall_correct,
         overall_total |-> overall_total]

-----------------------------------------------------------------------------
(* calculate_accuracy as a state machine: one step per prediction *)

NormalizeIdle ==
    /\ raw_id = <<>>
    /\ norm_once = <<>>
    /\ norm_twice = <<>>
    /\ norm_pc = "idle"

CoerceIdle ==
    /\ cell = NaN
    /\ coerced = -1

AccuracyIdle ==
    /\ ground_truth = [columns |-> AllColumns, rows |-> <<>>]
    /\ predictions = <<>>
    /\ parameter_stats = ZeroStats
    /\ pc = "idle"
    /\ loop_part_id = <<>>
    /\ report = NotCalled
    /\ summary = NotCalled

BatchIdle ==
    /\ pdf_files = <<>>
    /\ results = <<>>
    /\ batch_pc = "idle"
    /\ output_file = <<>>
    /\ output_writes = 0

\* line 136-137, with the arguments of the call
Init ==
    /\ ground_truth \in TableDomain
    /\ predictions = <<>>
    /\ parameter_stats = ZeroStats
    /\ pc = "loop"
    /\ loop_part_id = <<>>
    /\ report = NotCalled
    /\ summary = NotCalled
    /\ NormalizeIdle
    /\ CoerceIdle
    /\ BatchIdle

\* lines 140-221: the next prediction of the list is evaluated
NextPrediction ==
    /\ pc = "loop"
    /\ Len(predictions) < MaxPreds
    /\ \E pred \in PredDomain :
        LET result == EvaluatePrediction(parameter_stats, pred, ground_truth)
        IN  /\ predictions' = Append(predictions, pred)
            /\ loop_part_id' = PredPartId(pred)
            /\ parameter_stats' = result.stats
            /\ pc' = IF result.raised THEN "raised" ELSE "loop"
    /\ UNCHANGED <<ground_truth, report, summary, normVars, coerceVars, batchVars>>

\* line 223: the list is exhausted
ReturnStats ==
    /\ pc = "loop"
    /\ pc' = "returned"
    /\ UNCHANGED <<ground_truth, predictions, parameter_stats, loop_part_id,
                   report, summary, normVars, coerceVars, batchVars>>

\* main, lines 400-404: create_visualization is called and its result is
\* unpacked into three names; unpacking None raises TypeError
CallVisualization ==
    /\ pc = "returned"
    /\ report' = create_visualization(parameter_stats)
    /\ pc' = IF report'.kind = "none" THEN "main_raised" ELSE "visualized"
    /\ UNCHANGED <<ground_truth, predictions, parameter_stats, loop_part_id,
                   summary, normVars, coerceVars, batchVars>>

\* main, lines 406-409: the summary table, then the closing lines
CallSummary ==
    /\ pc = "visualized"
    /\ summary' = print_summary_table(parameter_stats)
    /\ pc' = "done"
    /\ UNCHANGED <<ground_truth, predictions, parameter_stats, loop_part_id,
                   report, normVars, coerceVars, batchVars>>

Next == NextPrediction \/ ReturnStats \/ CallVisualization \/ CallSummary

Spec == Init /\ [][Next]_vars

-----------------------------------------------------------------------------
(* normalize_part_id applied to an identifier, and to its own result *)

IdTokens ==
    {<<"a">>,
     <<"x">>,
     <<".","p">>,
     <<"d","f">>,
     <<".","p","d","f">>,
     <<"_","d">>,
     <<"r","w">>,
     <<"_","d","r","w">>,
     <<" ">>,
     <<" ","(","1",")">>,
     <<" ","(","2",")">>,
     <<".","P","D","F">>,
     <<".","D","R","W">>}

RECURSIVE Concat(_)
Concat(seqs) == IF seqs = <<>> THEN <<>> ELSE Head(seqs) \o Concat(Tail(seqs))

IdDomain == {Concat(ts) : ts \in SeqsUpTo(IdTokens, MaxTokens)}

InitNormalize ==
    /\ raw_id \in IdDomain
    /\ norm_once = <<>>
    /\ norm_twice = <<>>
    /\ norm_pc = "start"
    /\ CoerceIdle
    /\ AccuracyIdle
    /\ BatchIdle

NormalizeOnce ==
    /\ norm_pc = "start"
    /\ norm_once' = normalize_part_id(raw_id)
    /\ norm_pc' = "once"
    /\ UNCHANGED <<raw_id, norm_twice, coerceVars, accVars, batchVars>>

NormalizeAgain ==
    /\ norm_pc = "once"
    /\ norm_twice' = normalize_part_id(norm_once)
    /\ norm_pc' = "twice"
    /\ UNCHANGED <<raw_id, norm_once, coerceVars, accVars, batchVars>>

NextNormalize == NormalizeOnce \/ NormalizeAgain

SpecNormalize == InitNormalize /\ [][NextNormalize]_vars

-----------------------------------------------------------------------------
(* convert_excel_value applied to a cell *)

CellTexts == {<<"y","e","s">>, <<"1">>, <<>>}

CellDomain ==
    {NaN, NoneV, BoolV(TRUE), BoolV(FALSE)}
    \cup {IntV(i) : i \in (0 - MaxNum)..MaxNum}
    \cup {FloatV(h) : h \in (0 - 2 * MaxNum)..(2 * MaxNum)}
    \cup {TextV(t) : t \in CellTexts}

InitCoerce ==
    /\ cell \in CellDomain
    /\ coerced = -1
    /\ NormalizeIdle
    /\ AccuracyIdle
    /\ BatchIdle

Convert ==
    /\ coerced = -1
    /\ coerced' = convert_excel_value(cell)
    /\ UNCHANGED <<cell, normVars, accVars, batchVars>>

NextCoerce == Convert

SpecCoerce == InitCoerce /\ [][NextCoerce]_vars

-----------------------------------------------------------------------------
(* analyze_batch (manufacturing_part_analyzer.py): one analyze_part per PDF *)
(* of the directory, then the results file.  The text of a model response  *)
(* is a sequence of tokens: "fence" (three backquotes), the tag "json", a   *)
(* JSON object "{}", a JSON array "[]", prose "text" and whitespace " ".  *)

Fence == <<"fence">>
FenceJson == <<"fence", "json">>

\* s.split(pat)[0]: what precedes the first occurrence of pat
RECURSIVE BeforeFirst(_, _)
BeforeFirst(s, pat) ==
    IF s = <<>> \/ StartsWith(s, pat) THEN <<>>
    ELSE <<Head(s)>> \o BeforeFirst(Tail(s), pat)

\* what follows the first occurrence of pat (pat occurs in s)
RECURSIVE AfterFirst(_, _)
AfterFirst(s, pat) ==
    IF s = <<>> THEN <<>>
    ELSE IF StartsWith(s, pat) THEN SubSeq(s, Len(pat) + 1, Len(s))
    ELSE AfterFirst(Tail(s), pat)

\* s.split(pat)[1]
SplitSecond(s, pat) == BeforeFirst(AfterFirst(s, pat), pat)

\* lines 244-247: the JSON is taken out of a markdown code block
ExtractJson(result_text) ==
    IF IsSubstring(FenceJson, result_text)
    THEN BeforeFirst(SplitSecond(result_text, FenceJson), Fence)
    ELSE IF IsSubstring(Fence, result_text)
    THEN BeforeFirst(SplitSecond(result_text, Fence), Fence)
    ELSE result_text

\* json.loads: "dict", "list", or "JSONDecodeError"
json_loads(text) ==
    IF text = <<"{}">> THEN "dict"
    ELSE IF text = <<"[]">> THEN "list"
    ELSE "JSONDecodeError"

\* os.path.basename of the path of a file of the directory
basename(path) == path.name

\* lines 257-262: the record of the except branch
ErrorRecord(pdf_path, e) ==
    [keys |-> {"error", "source_file"}, error |-> e, source_file |-> basename(pdf_path)]

\* lines 249-255: the parsed object with its metadata
AnalysisRecord(pdf_path) ==
    [keys |-> {"analysis", "source_file", "extracted_text_preview"},
     error |-> "", source_file |-> basename(pdf_path)]

\* lines 232-262: the try block and its except branch
CallModel(pdf) ==
    IF pdf.call = "raises" THEN ErrorRecord(pdf.path, "APIError")
    ELSE IF pdf.call = "no_content" THEN ErrorRecord(pdf.path, "TypeError")
    ELSE LET parsed == json_loads(Strip(ExtractJson(pdf.response)))
         IN  IF parsed = "dict" THEN AnalysisRecord(pdf.path)
             ELSE IF parsed = "list" THEN ErrorRecord(pdf.path, "TypeError")
             ELSE ErrorRecord(pdf.path, "JSONDecodeError")

\* lines 183-262: fitz.open (lines 68, 94) is called before the try block, so
\* what it raises leaves analyze_part
analyze_part(pdf) ==
    IF pdf.readable
    THEN [raised |-> FALSE, result |-> CallModel(pdf)]
    ELSE [raised |-> TRUE, result |-> ErrorRecord(pdf.path, "FileDataError")]

PdfFile(name, readable, call, response) ==
    [path |-> [dir |-> "drawings", name |-> name],
     readable |-> readable, call |-> call, response |-> response]

\* the files a directory draws from, each with what happens when it is analysed
PdfDomain ==
    { PdfFile("a.pdf", TRUE, "answers", <<"{}">>),
      PdfFile("b.pdf", TRUE, "answers",
              <<"text", " ", "fence", "json", " ", "{}", " ", "fence", " ", "text">>),
      PdfFile("c.pdf", TRUE, "answers", <<"fence", " ", "{}", " ", "fence">>),
      PdfFile("d.pdf", TRUE, "raises", <<>>),
      PdfFile("e.pdf", TRUE, "answers", <<"text", " ", "{}">>),
      PdfFile("f.pdf", TRUE, "answers", <<"fence", "json", "[]", "fence">>),
      PdfFile("g.pdf", TRUE, "no_content", <<>>),
      PdfFile("h.pdf", FALSE, "answers", <<"{}">>) }

\* line 275: the glob gives the files of the directory once each, in its order
DirectoryDomain == {q \in SeqsUpTo(PdfDomain, MaxPdfs) : Distinct(q)}

\* lines 275-276
InitBatch ==
    /\ pdf_files \in DirectoryDomain
    /\ results = <<>>
    /\ batch_pc = "loop"
    /\ output_file = <<>>
    /\ output_writes = 0
    /\ NormalizeIdle
    /\ CoerceIdle
    /\ AccuracyIdle

\* lines 280-283: one turn of the loop
AnalyzeNext ==
    /\ batch_pc = "loop"
    /\ Len(results) < Len(pdf_files)
    /\ LET outcome == analyze_part(pdf_files[Len(results) + 1])
       IN  IF outcome.raised
           THEN batch_pc' = "raised" /\ UNCHANGED results
           ELSE results' = Append(results, outcome.result) /\ UNCHANGED batch_pc
    /\ UNCHANGED <<pdf_files, output_file, output_writes, normVars, coerceVars, accVars>>

\* lines 285-290: the results file is written and the list returned
SaveResults ==
    /\ batch_pc = "loop"
    /\ Len(results) = Len(pdf_files)
    /\ output_file' = results
    /\ output_writes' = output_writes + 1
    /\ batch_pc' = "returned"
    /\ UNCHANGED <<pdf_files, results, normVars, coerceVars, accVars>>

NextBatch == AnalyzeNext \/ SaveResults

SpecBatch == InitBatch /\ [][NextBatch]_vars

-----------------------------------------------------------------------------
(* Properties *)

\* the prediction evaluated by the step that has just been taken
LastPred == predictions[Len(predictions)]

\* a step of the loop: one more prediction has been evaluated
Evaluated == Len(predictions') = Len(predictions) + 1

\* no row of the table has the prediction's normalized identifier
NoRowMatches(gt, pred) ==
    \A r \in 1..Len(gt.rows) :
        normalize_part_id(PyStr(gt.rows[r]["Part ID"]))
            # normalize_part_id(PyStr(SourceIdentifier(pred)))

\* the row the prediction is compared with: the first whose normalized Part ID
\* is the prediction's normalized identifier
ComparedRow(gt, pred) ==
    gt.rows[Min({r \in 1..Len(gt.rows) :
                    normalize_part_id(PyStr(gt.rows[r]["Part ID"]))
                        = normalize_part_id(PyStr(SourceIdentifier(pred)))})]

\* a step of the loop that evaluated a prediction matching some row
EvaluatedMatch == Evaluated /\ ~NoRowMatches(ground_truth, LastPred')

\* what the step added to a parameter's counters
AddedTotal(param) == parameter_stats'[param].total - parameter_stats[param].total
AddedCorrect(param) == parameter_stats'[param].correct - parameter_stats[param].correct

\* the combined columns with their two prediction keys
CombinedGroups ==
    { <<"Fab Weld", "fab", "weld">>, <<"Press Inserts", "press", "inserts">> }

\* the items of process_map whose column is fed by one prediction key
SingleItems ==
    {process_map[k] : k \in {j \in 1..Len(process_map) :
        process_map[j][2] \notin {"Fab Weld", "Press Inserts"}}}

\* the categorical parameters compared for equality
ExactItems == { <<"complexity_level", "Complexity Level">>, <<"type", "Type">> }

\* a 0/1 prediction value, an absent key counted as 0
ValueOrZero(pred, key) == IF Has(pred, key) THEN pred[key] ELSE IntV(0)

IsIntOrAbsent(value) == value.kind \in {"int", "absent"}

\* C1: normalize_part_id is idempotent: normalising a normalized identifier
\* gives the same identifier back.
C1_Idempotent == norm_pc = "twice" => norm_twice = norm_once

\* C2: correct <= total for every parameter in every state of the run, and no
\* evaluated record raises a parameter's correct by more than its total.
C2_CorrectLeTotal ==
    /\ [](\A p \in all_params :
            parameter_stats[p].correct <= parameter_stats[p].total)
    /\ [][\A p \in all_params :
            parameter_stats'[p].correct - parameter_stats[p].correct
                <= parameter_stats'[p].total - parameter_stats[p].total]_vars

\* C2 witness: some parameter has been counted correct and some parameter has
\* been counted incorrect.
C2_Witness ==
    /\ \E p \in all_params : parameter_stats[p].correct > 0
    /\ \E p \in all_params :
        parameter_stats[p].correct < parameter_stats[p].total

\* C3: a prediction whose normalized identifier is the normalized Part ID of no
\* row changes no counter, and the loop goes on to the next prediction.
C3_UnmatchedSkipped ==
    [][(Evaluated /\ NoRowMatches(ground_truth, LastPred'))
        => (parameter_stats' = parameter_stats /\ pc' = "loop")]_vars

\* C3 witness: on a table with rows, an unmatched prediction was skipped and
\* the prediction after it was evaluated and counted.
C3_Witness ==
    /\ Len(ground_truth.rows) > 0
    /\ Len(predictions) = 2
    /\ NoRowMatches(ground_truth, predictions[1])
    /\ parameter_stats # ZeroStats
    /\ pc = "loop"

\* C4: a combined column of the compared row is scored with the larger of its
\* two prediction values, a missing key counted as 0, whichever of the two keys
\* the prediction carries; it is correct iff that equals the coerced cell.
C4_CombinedMax ==
    [][(EvaluatedMatch /\ pc' = "loop") =>
        \A g \in CombinedGroups :
            LET pred == LastPred'
                a == ValueOrZero(pred, g[2])
                b == ValueOrZero(pred, g[3])
                larger == IF b.n > a.n THEN b.n ELSE a.n
                actual_val == convert_excel_value(ComparedRow(ground_truth, pred)[g[1]])
            IN  ( /\ g[1] \in ground_truth.columns
                  /\ Has(pred, g[2]) \/ Has(pred, g[3])
                  /\ IsIntOrAbsent(pred[g[2]]) /\ IsIntOrAbsent(pred[g[3]]) )
                => /\ AddedTotal(g[1]) = 1
                   /\ AddedCorrect(g[1]) = (IF larger = actual_val THEN 1 ELSE 0)]_vars

\* C5: a matched prediction carrying both keys of a combined column that the
\* table has raises that column's total by exactly 1 and its correct by at most 1.
C5_CombinedOnce ==
    [][EvaluatedMatch =>
        \A g \in CombinedGroups :
            ( /\ g[1] \in ground_truth.columns
              /\ Has(LastPred', g[2]) /\ Has(LastPred', g[3]) )
            => /\ AddedTotal(g[1]) = 1
               /\ AddedCorrect(g[1]) \in {0, 1}]_vars

\* C6: the counters a run returns are the counters of a run over any
\* permutation of the same predictions against the same table.
C6_OrderIndependent ==
    pc = "returned" =>
        \A f \in Permutations(1..Len(predictions)) :
            LET permuted == [i \in 1..Len(predictions) |-> predictions[f[i]]]
            IN  \A other \in {calculate_accuracy(permuted, ground_truth)} :
                    ~other.raised /\ other.stats = parameter_stats

\* C6 witness: a run returned after two different matched predictions, one
\* counted correct and one counted incorrect for the same parameter.
C6_Witness ==
    /\ pc = "returned"
    /\ Len(predictions) = 2
    /\ predictions[1] # predictions[2]
    /\ ~NoRowMatches(ground_truth, predictions[1])
    /\ ~NoRowMatches(ground_truth, predictions[2])
    /\ \E p \in all_params :
        parameter_stats[p].total = 2 /\ parameter_stats[p].correct = 1

C8_SkippedFieldOnly ==
    [][EvaluatedMatch =>
        LET pred == LastPred'
            actual == ComparedRow(ground_truth, pred)
            skipped(item) ==
                \/ ~Has(pred, item[1])
                \/ item[2] \notin ground_truth.columns
                \/ actual[item[2]].kind = "text"
        IN  /\ \A item \in SingleItems :
                AddedTotal(item[2]) = (IF skipped(item) THEN 0 ELSE 1)
            /\ (\A k \in PredKeys \ {"error", "source_file"} : ~Has(pred, k))
                => parameter_stats' = parameter_stats]_vars

\* C9: Complexity Level and Type are counted iff the prediction carries the key
\* and the cell of the compared row is not empty; when counted, correct goes up
\* iff the two values are equal as lower-cased strings.
C9_ExactNeedsCell ==
    [][EvaluatedMatch =>
        \A item \in ExactItems :
            LET pred == LastPred'
                actual == ComparedRow(ground_truth, pred)
                counted == /\ Has(pred, item[1])
                           /\ item[2] \in ground_truth.columns
                           /\ actual[item[2]].kind # "nan"
            IN  /\ AddedTotal(item[2]) = (IF counted THEN 1 ELSE 0)
                /\ counted =>
                    (AddedCorrect(item[2]) = 1
                        <=> Lower(PyStr(pred[item[1]])) = Lower(PyStr(actual[item[2]])))]_vars

\* C10: convert_excel_value returns 0 or 1 for every cell: 0 for an empty
\* cell, 1 for a boolean iff it is true, 1 for a number iff it is strictly
\* positive, 0 for any text.
C10_CoercionTotal ==
    coerced # -1 =>
        /\ coerced \in {0, 1}
        /\ cell.kind \in {"nan", "none"} => coerced = 0
        /\ cell.kind = "bool" => (coerced = 1 <=> cell = BoolV(TRUE))
        /\ cell.kind \in {"int", "float"} => (coerced = 1 <=> cell.n > 0)
        /\ cell.kind = "text" => coerced = 0

\* C10 witness: a negative number has been coerced to 0.
C10_Witness == coerced = 0 /\ cell.kind = "int" /\ cell.n < 0

\* C11: calculate_accuracy never raises: whatever the values of the prediction
\* fields and the cells of the table, the run is not aborted by an exception.
C11_NeverRaises == pc # "raised"

\* no prediction of the run has a row of the table with its identifier
\* (in particular: no prediction at all, or no row at all)
NothingMatched ==
    \A i \in 1..Len(predictions) : NoRowMatches(ground_truth, predictions[i])

\* create_visualization has been called by main
VisualizationCalled == pc \in {"visualized", "main_raised", "done"}

\* C12: a validation run in which nothing matched (zero predictions, zero rows,
\* or no prediction matching any row) ends normally: main is not aborted at
\* the call of create_visualization, which hands back overall accuracy 0 over
\* a grand total of 0.
C12_EmptyRunEndsNormally ==
    (NothingMatched /\ VisualizationCalled) =>
        /\ pc # "main_raised"
        /\ report.kind = "tuple"
        /\ report.overall_accuracy = Zero
        /\ report.overall_total = 0

\* the fraction acc is the percentage 100 * correct / total
IsPercentOf(acc, correct, total) ==
    acc.den > 0 /\ acc.num * total = 100 * correct * acc.den

\* sums of the counters over all the parameters
GrandCorrect == SumOver(parameter_stats, "correct", all_params)
GrandTotal == SumOver(parameter_stats, "total", all_params)

\* an output (of the chart or of the table) reports the statistics
ReportsStats(out) ==
    /\ out.kind \in {"tuple", "printed"}
    /\ out.params = {p \in all_params : parameter_stats[p].total > 0}
    /\ \A p \in out.params :
        IsPercentOf(out.accuracy[p], parameter_stats[p].correct,
                    parameter_stats[p].total)
    /\ IF GrandTotal = 0
       THEN out.overall_accuracy = Zero
       ELSE IsPercentOf(out.overall_accuracy, GrandCorrect, GrandTotal)

\* C13: the percentage output leaves out the parameters with total = 0,
\* reports 100 * correct / total for every other parameter, and reports the
\* overall accuracy 100 * (sum of correct) / (sum of total), which is 0 when
\* the grand total is 0; this holds of what create_visualization hands back
\* and of what print_summary_table prints.
C13_PercentagesReported ==
    /\ VisualizationCalled => ReportsStats(report)
    /\ pc = "done" => ReportsStats(summary)

\* s.endswith(pat)
EndsWith(s, pat) ==
    /\ Len(pat) <= Len(s)
    /\ SubSeq(s, Len(s) - Len(pat) + 1, Len(s)) = pat

\* s without the listed variants it ends with, one after the other
RECURSIVE WithoutTrailing(_)
WithoutTrailing(s) ==
    IF \E k \in 1..Len(Suffixes) : EndsWith(s, Suffixes[k])
    THEN LET k == CHOOSE j \in 1..Len(Suffixes) : EndsWith(s, Suffixes[j])
         IN  WithoutTrailing(SubSeq(s, 1, Len(s) - Len(Suffixes[k])))
    ELSE s

\* C14: normalize_part_id removes the listed variants only where they end the
\* identifier, then trims: its result is the input without its trailing
\* variants, trimmed, and a variant inside the identifier is kept.
C14_SuffixesOnly ==
    norm_pc # "start" => norm_once = Strip(WithoutTrailing(raw_id))

\* s is a chain of one or more listed variants
RECURSIVE IsVariantChain(_)
IsVariantChain(s) ==
    \E k \in 1..Len(Suffixes) :
        /\ StartsWith(s, Suffixes[k])
        /\ LET rest == SubSeq(s, Len(Suffixes[k]) + 1, Len(s))
           IN  rest = <<>> \/ IsVariantChain(rest)

\* b is a base identifier: no listed variant in it, no surrounding whitespace
IsBase(b) ==
    /\ \A k \in 1..Len(Suffixes) : ~IsSubstring(Suffixes[k], b)
    /\ Strip(b) = b

\* the ways of reading id as a base identifier followed by a chain of variants
BaseSplits(id) ==
    {i \in 0..Len(id) :
        /\ IsBase(SubSeq(id, 1, i))
        /\ IsVariantChain(SubSeq(id, i + 1, Len(id)))}

\* C15: an identifier made of a base identifier b followed by a chain of
\* listed variants normalizes to b, which is also the normal form of b.
C15_AppendedSuffixes ==
    norm_pc # "start" =>
        \A i \in BaseSplits(raw_id) :
            /\ norm_once = SubSeq(raw_id, 1, i)
            /\ normalize_part_id(SubSeq(raw_id, 1, i)) = SubSeq(raw_id, 1, i)

\* C15 witness: 'a (1).PDF', a base identifier with a chain of two variants,
\* has been normalized to 'a'.
C15_Witness ==
    /\ norm_pc = "once"
    /\ raw_id = <<"a"," ","(","1",")",".","P","D","F">>
    /\ BaseSplits(raw_id) = {1}
    /\ norm_once = <<"a">>

\* the identifier keys, by priority
IdentifierKeys == <<"part_identifier", "part_name", "source_file">>

\* the value of the first of the three keys the prediction carries
FirstKeyPresent(pred) ==
    LET carried == {k \in 1..3 : pred[IdentifierKeys[k]].kind # "absent"}
    IN  IF carried = {} THEN TextV(<<>>) ELSE pred[IdentifierKeys[Min(carried)]]

\* a value Python takes as true: not null, not '', not 0
IsSet(v) ==
    \/ v.kind = "text" /\ v.s # <<>>
    \/ v.kind = "int" /\ v.n # 0

\* the value of the first of part_identifier and part_name that is set, and
\* otherwise the value of source_file ('' when the key is missing)
FirstKeySet(pred) ==
    LET set == {k \in 1..2 : IsSet(pred[IdentifierKeys[k]])}
    IN  IF set # {} THEN pred[IdentifierKeys[Min(set)]]
        ELSE IF pred["source_file"].kind = "absent" THEN TextV(<<>>)
        ELSE pred["source_file"]

\* C16: the identifier a prediction is matched by is the normalized value of
\* the first key it carries in the order part_identifier, part_name,
\* source_file, whatever that value is.
C16_FirstKeyCarried ==
    Len(predictions) > 0 =>
        loop_part_id = normalize_part_id(PyStr(FirstKeyPresent(LastPred)))

\* C16 amended: the identifier is the normalized value of the first of
\* part_identifier and part_name whose value is set (not missing, null, empty
\* or zero), and of source_file when neither is.
C16_FirstKeySet ==
    Len(predictions) > 0 =>
        loop_part_id = normalize_part_id(PyStr(FirstKeySet(LastPred)))

\* C16 witness: a prediction carrying an empty part_identifier has been matched
\* by its part_name 'b'.
C16_Witness ==
    /\ Len(predictions) > 0
    /\ LastPred["part_identifier"] = TextV(<<>>)
    /\ LastPred["part_name"] = TextV(<<"b">>)
    /\ loop_part_id = <<"b">>
    /\ parameter_stats["Material"].total > 0

\* the rows whose normalized Part ID is the prediction's normalized identifier
SameIdRows(gt, pred) ==
    {r \in 1..Len(gt.rows) :
        normalize_part_id(PyStr(gt.rows[r]["Part ID"]))
            = normalize_part_id(PyStr(SourceIdentifier(pred)))}

\* the table reduced to one of its rows
OnlyRow(gt, r) == [columns |-> gt.columns, rows |-> <<gt.rows[r]>>]

\* C17: a prediction is compared with one row, the first in table order of
\* those that normalize to its identifier: the step changes the counters (and
\* ends) exactly as it would were that row the only row of the table, so the
\* later duplicates affect nothing.
C17_FirstDuplicateCompared ==
    [][EvaluatedMatch =>
        LET first == Min(SameIdRows(ground_truth, LastPred'))
            alone == EvaluatePrediction(parameter_stats, LastPred',
                                        OnlyRow(ground_truth, first))
        IN  /\ parameter_stats' = alone.stats
            /\ (pc' = "raised") = alone.raised]_vars

\* C17 witness: a prediction matching two rows has been scored against the
\* first, and the second alone would have given other counters.
C17_Witness ==
    /\ Len(predictions) = 1
    /\ SameIdRows(ground_truth, LastPred) = {1, 2}
    /\ parameter_stats =
         EvaluatePrediction(ZeroStats, LastPred, OnlyRow(ground_truth, 1)).stats
    /\ parameter_stats #
         EvaluatePrediction(ZeroStats, LastPred, OnlyRow(ground_truth, 2)).stats

\* one lower-cased string occurs in the other
OneInOther(a, b) == IsSubstring(a, b) \/ IsSubstring(b, a)

\* C18: when a matched prediction's material is compared (the prediction has
\* the key, the table has the column), Material is counted once, and counted
\* correct exactly when, lower-cased, the predicted material occurs in the
\* ground-truth material or the ground-truth material in the predicted one.
C18_MaterialEitherWay ==
    [][(/\ EvaluatedMatch
        /\ LastPred'["material"].kind # "absent"
        /\ "Material" \in ground_truth.columns) =>
        \A predicted \in {Lower(PyStr(LastPred'["material"]))} :
        \A actual \in {Lower(PyStr(ComparedRow(ground_truth, LastPred')["Material"]))} :
            /\ AddedTotal("Material") = 1
            /\ AddedCorrect("Material") \in {0, 1}
            /\ AddedCorrect("Material") = 1 <=> OneInOther(predicted, actual)]_vars

\* C18 witness: against the row whose material is 'Brass', the empty material
\* and then 'Brass Alloy' have both been counted correct.
C18_Witness ==
    /\ Len(predictions) = 2
    /\ Len(ground_truth.rows) = 1
    /\ ground_truth.rows[1]["Material"] = TextV(<<"B","r","a","s","s">>)
    /\ predictions[1]["material"] = TextV(<<>>)
    /\ predictions[2]["material"] = TextV(<<"B","r","a","s","s"," ","A","l","l","o","y">>)
    /\ ~NothingMatched
    /\ parameter_stats["Material"] = [correct |-> 2, total |-> 2]

\* the ways of cutting a sequence into consecutive non-empty batches
RECURSIVE Splits(_)
Splits(s) ==
    IF s = <<>> THEN {<<>>}
    ELSE UNION {{<<SubSeq(s, 1, k)>> \o rest :
                    rest \in Splits(SubSeq(s, k + 1, Len(s)))} : k \in 1..Len(s)}

\* per-parameter sum of two workers' counters
AddStats(a, b) ==
    [p \in all_params |-> [correct |-> a[p].correct + b[p].correct,
                           total |-> a[p].total + b[p].total]]

\* the workers' counters, each from zeroed counters over its own batch
WorkerStats(batches) ==
    [i \in 1..Len(batches) |-> calculate_accuracy(batches[i], ground_truth)]

\* the workers' counters merged first to last, and last to first
RECURSIVE MergeForward(_, _)
MergeForward(workers, i) ==
    IF i > Len(workers) THEN ZeroStats
    ELSE AddStats(workers[i].stats, MergeForward(workers, i + 1))

RECURSIVE MergeBackward(_, _)
MergeBackward(workers, i) ==
    IF i = 0 THEN ZeroStats
    ELSE AddStats(workers[i].stats, MergeBackward(workers, i - 1))

\* C19: when a sequential run returns its counters, every split of its
\* predictions into consecutive batches, each run from zeroed counters
\* against the same table, returns counters whose per-parameter sum, merged
\* in either order, is the counters of the sequential run.
C19_AdditiveOverBatches ==
    [][(pc = "loop" /\ pc' = "returned") =>
        \A batches \in Splits(predictions) :
        \A workers \in {WorkerStats(batches)} :
            /\ \A i \in 1..Len(workers) : ~workers[i].raised
            /\ MergeForward(workers, 1) = parameter_stats'
            /\ MergeBackward(workers, Len(workers)) = parameter_stats']_vars

\* C19 witness: a run over two matched predictions has returned a parameter
\* counted twice, once by each of the two one-prediction batches.
C19_Witness ==
    /\ pc = "returned"
    /\ Len(predictions) = 2
    /\ \E p \in all_params :
        /\ parameter_stats[p].total = 2
        /\ calculate_accuracy(<<predictions[1]>>, ground_truth).stats[p].total = 1
        /\ calculate_accuracy(<<predictions[2]>>, ground_truth).stats[p].total = 1

\* the parameters the loop body updates: the three descriptive ones and the
\* columns the field mapping names
UpdatedParams ==
    {"Complexity Level", "Type", "Material"}
        \cup {process_map[k][2] : k \in 1..Len(process_map)}

\* C20: every column the field mapping names is a tracked parameter, and the
\* counters hold an entry {correct, total} for each tracked parameter, zero
\* before the first prediction, so every update of the loop body addresses
\* an initialised entry.
C20_MappedColumnsTracked ==
    /\ UpdatedParams \subseteq all_params
    /\ DOMAIN parameter_stats = all_params
    /\ \A p \in UpdatedParams :
        /\ parameter_stats[p].correct \in Nat
        /\ parameter_stats[p].total \in Nat
        /\ predictions = <<>> =>
            parameter_stats[p] = [correct |-> 0, total |-> 0]

\* C20 witness: the columns of both combined groups and the last single
\* column of the mapping have been counted in one run.
C20_Witness ==
    /\ parameter_stats["Fab Weld"].total > 0
    /\ parameter_stats["Press Inserts"].total > 0
    /\ parameter_stats["Turret Punch /Metal Stamping"].total > 0

\* the model call for the PDF fails, or its response does not parse to a
\* JSON object
ModelOrParseFails(pdf) ==
    \/ pdf.call # "answers"
    \/ json_loads(Strip(ExtractJson(pdf.response))) # "dict"

\* C21: analyze_batch gives one record per PDF found, in the order of the
\* files, each carrying the file's name as source_file; a PDF whose model
\* call or response parsing fails gets the error record {error, source_file}
\* and the loop goes on; the batch is never aborted, and the results file is
\* written once, with all the records, after the last PDF.
C21_OneRecordPerPdf ==
    /\ batch_pc # "raised"
    /\ Len(results) <= Len(pdf_files)
    /\ \A i \in 1..Len(results) :
        /\ "source_file" \in results[i].keys
        /\ results[i].source_file = pdf_files[i].path.name
        /\ ModelOrParseFails(pdf_files[i]) <=>
            results[i].keys = {"error", "source_file"}
    /\ batch_pc = "loop" => output_writes = 0
    /\ batch_pc = "returned" =>
        /\ Len(results) = Len(pdf_files)
        /\ output_writes = 1
        /\ output_file = results

====
